---- MODULE Spec2Model ----
(***************************************************************************)
(* requrse: the iterative request engine of pkg/request/run.go (current    *)
(* variant, lines 210-632).  One TemplateRequest (tr) is driven by         *)
(* Recurse: advance the context, bind and send one request (HTTP or        *)
(* WebSocket), evaluate the stop_when expressions on the response, hand    *)
(* the body to the callback, repeat or return.                             *)
(***************************************************************************)
EXTENDS Integers, Sequences, FiniteSets, TLC

(* ------------------------------ bounds -------------------------------- *)

\* Recurse's loop has no upper limit (run.go:581); iterations 0..MaxIter-1 are explored.
MaxIter == 4
\* Recurse may be called again on the same TemplateRequest; at most MaxRuns calls.
MaxRuns == 2
\* stop_when lists of at most MaxStop expressions are explored.
MaxStop == 2

(* ------------------------- strings and templates ---------------------- *)

\* A text is a sequence of one-character strings; a template is a text in which
\* an action such as {{.Page}} is one token.
Digits == <<"0", "1", "2", "3", "4", "5", "6", "7", "8", "9">>

RECURSIVE Itoa(_)
\* text/template prints an int in decimal.
Itoa(n) ==
    IF n < 10 THEN <<Digits[n + 1]>>
    ELSE Itoa(n \div 10) \o <<Digits[(n % 10) + 1]>>

\* strings.HasPrefix
HasPrefix(s, p) == Len(s) >= Len(p) /\ SubSeq(s, 1, Len(p)) = p

RECURSIVE Execute(_, _)
\* (*template.Template).Execute against the context c: literal text is copied,
\* a field action is replaced by the field's value.  An action naming a field
\* that RequestContext does not have stops the execution with an error; what
\* was written before it stays in the buffer.
Execute(tpl, c) ==
    IF tpl = <<>> THEN <<>>
    ELSE IF Head(tpl) = "{{.Missing}}" THEN <<>>
    ELSE LET tok == Head(tpl)
             out == IF tok = "{{.Page}}" THEN Itoa(c.Page)
                    ELSE IF tok = "{{.Iteration}}" THEN Itoa(c.Iteration)
                    ELSE IF tok = "{{.ResultOffset}}" THEN Itoa(c.ResultOffset)
                    ELSE <<tok>>
         IN  out \o Execute(Tail(tpl), c)

\* The error result of Execute: TRUE when the execution stops at an action.
ExecuteFails(tpl) == \E i \in 1..Len(tpl) : tpl[i] = "{{.Missing}}"

RECURSIVE PathFrom(_, _)
\* The text of u from its n-th "/" on (empty when it has fewer).
PathFrom(u, n) ==
    IF u = <<>> THEN <<>>
    ELSE IF Head(u) = "/" THEN (IF n = 1 THEN u ELSE PathFrom(Tail(u), n - 1))
    ELSE PathFrom(Tail(u), n)

\* resp.Request.URL.Path of scheme://host/path: what follows the host.
URLPath(u) == PathFrom(u, 3)

\* url: "http://x/{{.Page}}"
URL_HTTP == <<"h", "t", "t", "p", ":", "/", "/", "x", "/", "{{.Page}}">>
\* url: "ws://x/{{.Page}}"
URL_WS == <<"w", "s", ":", "/", "/", "x", "/", "{{.Page}}">>
\* url: "wss://x"
URL_WSS == <<"w", "s", "s", ":", "/", "/", "x">>

URLs == {URL_HTTP, URL_WS, URL_WSS}

\* setup_body: "" (absent) or "hello"
SETUP_NONE == <<>>
SETUP_HELLO == <<"h", "e", "l", "l", "o">>

SetupBodies == {SETUP_NONE, SETUP_HELLO}

\* body: "p={{.Page}}"
BODY_TPL == <<"p", "=", "{{.Page}}">>

\* lists: absent; one list; two lists of length 3; a list with an empty value
\* beside a shorter list
ListChoices ==
    { <<>>,
      << <<"a", "b">> >>,
      << <<"a", "b", "c">>, <<"x", "y", "z">> >>,
      << <<"a", "", "c">>, <<"x", "y">> >> }

PageSizes == {0, 10}

(* ------------------------- responses and JSON -------------------------- *)

\* Raw response bodies the server may return.
B_FALSE == "{\"done\": false}"
B_TRUE == "{\"done\": true}"
B_TEXT == "abc"

Bodies == {B_FALSE, B_TRUE, B_TEXT}

HTTPStatuses == {200}

\* A Go map[string]any / nil; the only key the modelled bodies carry is "done",
\* whose value is a JSON literal ("absent" when the key is missing).
NilMap == [t |-> "nil", done |-> "absent"]
EmptyMap == [t |-> "map", done |-> "absent"]
\* A Go []map[string]any / nil.
NilSlice == [t |-> "nil", elems |-> <<>>]
EmptySlice == [t |-> "slice", elems |-> <<>>]

\* maybe := map[string]any{}; json.Unmarshal(body, &maybe): the map is filled when
\* the body is a JSON object and left as it was (empty, not nil) when it is not.
UnmarshalObject(body) ==
    IF body = B_FALSE THEN [t |-> "map", done |-> "false"]
    ELSE IF body = B_TRUE THEN [t |-> "map", done |-> "true"]
    ELSE EmptyMap

\* maybeNot := []map[string]any{}; json.Unmarshal(body, &maybeNot): none of the
\* modelled bodies is a JSON array, so the slice stays empty (not nil).
UnmarshalArray(body) == EmptySlice

\* The zero SimpleResponse (tr.LastResponse before any HTTP evaluation).
ZeroSimpleResponse ==
    [Path |-> <<>>, Status |-> 0, RawBody |-> "",
     BodyObject |-> NilMap, BodyArray |-> NilSlice]

\* The SimpleResponse ShouldContinueHTTP builds from resp and body.
NormalizeHTTP(resp) ==
    [Path |-> resp.path, Status |-> resp.status, RawBody |-> resp.body,
     BodyObject |-> UnmarshalObject(resp.body),
     BodyArray |-> UnmarshalArray(resp.body)]

\* Mutant: the message is not parsed.
NormalizeWS_NoParse(msg) ==
    [Path |-> <<>>, Status |-> 0, RawBody |-> msg,
     BodyObject |-> EmptyMap, BodyArray |-> EmptySlice]

\* The SimpleResponse ShouldContinueWS builds from the message: only RawBody and
\* the two parses are set.
NormalizeWS(msg) ==
    [Path |-> <<>>, Status |-> 0, RawBody |-> msg,
     BodyObject |-> UnmarshalObject(msg),
     BodyArray |-> UnmarshalArray(msg)]

\* json.Marshal(sr) then json.Unmarshal into map[string]any: the value the
\* expressions query, under the json field names.
Remarshal(sr) ==
    [path |-> sr.Path, status |-> sr.Status, raw_body |-> sr.RawBody,
     body_object |-> sr.BodyObject, body_array |-> sr.BodyArray]

(* ------------------------- stop expressions ---------------------------- *)

E_CMP == ".body_object.done == true"
E_SEL == ".body_object | select(.done == true)"
E_GET == ".body_object.next, .body_object.done"
E_HALT == "halt"
E_FROMJSON == ".raw_body | fromjson | .done"
E_BAD == ".body_object.["
\* Expressions that only select one of the parsed forms.
E_OBJECT == ".body_object"
E_ARRAY == ".body_array"
\* An expression that reads a field the body does not determine.
E_STATUS == ".status | select(. == 200)"

Exprs == {E_CMP, E_SEL, E_GET, E_HALT, E_FROMJSON, E_BAD}

\* Items of a gojq result stream: JSON values by kind, and errors.
V_NULL == "null"
V_FALSE == "false"
V_TRUE == "true"
V_OBJECT == "object"
V_ARRAY == "array"
V_NUMBER == "number"
HALT_NIL == "HaltError(nil)"
RUNTIME_ERROR == "error"

\* .done of a JSON object: the key's value, null when it is missing.
GetDone(m) == IF m.t = "map" /\ m.done # "absent" THEN m.done ELSE V_NULL

\* gojq.Parse(condition) succeeds.
Parses(condition) == condition # E_BAD

\* query.Run(r): the items iter.Next() returns, in order, for the modelled
\* expressions (jq semantics).
Run(condition, r) ==
    CASE condition = E_CMP ->
           <<IF GetDone(r.body_object) = V_TRUE THEN V_TRUE ELSE V_FALSE>>
      [] condition = E_SEL ->
           IF GetDone(r.body_object) = V_TRUE THEN <<V_OBJECT>> ELSE <<>>
      [] condition = E_GET -> <<V_NULL, GetDone(r.body_object)>>
      [] condition = E_HALT -> <<HALT_NIL>>
      [] condition = E_OBJECT ->
           <<IF r.body_object.t = "nil" THEN V_NULL ELSE V_OBJECT>>
      [] condition = E_STATUS -> IF r.status = 200 THEN <<V_NUMBER>> ELSE <<>>
      [] condition = E_ARRAY ->
           <<IF r.body_array.t = "nil" THEN V_NULL ELSE V_ARRAY>>
      [] condition = E_FROMJSON ->
           IF r.raw_body = B_FALSE THEN <<V_FALSE>>
           ELSE IF r.raw_body = B_TRUE THEN <<V_TRUE>>
           ELSE <<RUNTIME_ERROR>>
      [] OTHER -> <<>>

RECURSIVE IterLoop_OnlyTrue(_, _)
\* Mutant: only the boolean true stops the loop.
IterLoop_OnlyTrue(stream, i) ==
    IF i > Len(stream) THEN "next"
    ELSE IF stream[i] = HALT_NIL THEN "next"
    ELSE IF stream[i] = V_TRUE THEN "stop"
    ELSE IterLoop_OnlyTrue(stream, i + 1)

RECURSIVE IterLoop_HaltIsValue(_, _)
\* Mutant: the HaltError check is missing, so a halt falls through to v != nil.
IterLoop_HaltIsValue(stream, i) ==
    IF i > Len(stream) THEN "next"
    ELSE IF stream[i] # V_NULL THEN "stop"
    ELSE IterLoop_HaltIsValue(stream, i + 1)

\* The inner for-loop over one expression's result stream (run.go:484-498),
\* from item i: "stop" when it returns false, "next" when it breaks.
RECURSIVE IterLoop(_, _)
IterLoop(stream, i) ==
    IF i > Len(stream) THEN "next"                  \* !ok: break
    ELSE IF stream[i] = HALT_NIL THEN "next"        \* HaltError, Value() == nil: break
    ELSE IF stream[i] # V_NULL THEN "stop"          \* v != nil: return false
    ELSE IterLoop(stream, i + 1)

\* The loop over tr.StopWhen (run.go:476-502), from expression k: the verdict
\* and the number of expressions parsed.
RECURSIVE ConditionLoop(_, _, _)
ConditionLoop(stopWhen, r, k) ==
    IF k > Len(stopWhen) THEN [verdict |-> "continue", parsed |-> k - 1]
    ELSE IF ~Parses(stopWhen[k]) THEN [verdict |-> "panic", parsed |-> k]
    ELSE IF IterLoop(Run(stopWhen[k], r), 1) = "stop"
         THEN [verdict |-> "stop", parsed |-> k]
    ELSE ConditionLoop(stopWhen, r, k + 1)

\* Mutant: the empty-list check is missing.
ShouldContinueHTTP_NoEmptyCheck(stopWhen, resp) ==
    ConditionLoop(stopWhen, Remarshal(NormalizeHTTP(resp)), 1)

\* ShouldContinueHTTP: no conditions, do not continue; else the loop.
ShouldContinueHTTP(stopWhen, resp) ==
    IF Len(stopWhen) = 0 THEN [verdict |-> "stop", parsed |-> 0]
    ELSE ConditionLoop(stopWhen, Remarshal(NormalizeHTTP(resp)), 1)

\* ShouldContinueWS: the same on the WebSocket message.
ShouldContinueWS(stopWhen, msg) ==
    IF Len(stopWhen) = 0 THEN [verdict |-> "stop", parsed |-> 0]
    ELSE ConditionLoop(stopWhen, Remarshal(NormalizeWS(msg)), 1)

(* ------------------------------ state ---------------------------------- *)

VARIABLES
    def,            \* the loaded TemplateRequest: URL, SetupBody, Body, StopWhen, Lists
    LastResponse,   \* tr.LastResponse
    webSocket,      \* tr.webSocket
    c,              \* the caller's RequestContext
    pc,             \* where Recurse is: advance, send, dispatch, done, panic, fatal
                    \* (oldest variant: hist_loop, hist_request, hist_dispatch, hist_done)
    fault,          \* what ended the run abnormally
    reqCount,       \* Recurse's loop counter
    body,           \* Send's first result
    shouldContinue, \* Send's second result
    lastEval,       \* the last evaluation: verdict and expressions parsed
    bound,          \* this run's Send calls: the context and URL each was bound with
    received,       \* this run's responses, in order
    hist,           \* the oldest Recurse variant: exchanges and callbacks so far
    headerTemplates, \* tr.headerTemplates: the compiled header templates by key
    handled,        \* this run's callback invocations: the bodies passed
    wsLog,          \* this run's operations on the WebSocket connection
    dials,          \* every Dial of the engine's lifetime: the URL dialed
    runs            \* Recurse calls so far

vars == <<def, LastResponse, webSocket, c, pc, fault, reqCount, body,
          shouldContinue, lastEval, bound, received, handled, wsLog, dials, runs,
          hist, headerTemplates>>

RECURSIVE SeqsUpTo(_, _)
\* The sequences over S of length at most n.
SeqsUpTo(S, n) ==
    IF n = 0 THEN {<<>>}
    ELSE LET shorter == SeqsUpTo(S, n - 1)
         IN  shorter \cup {Append(q, x) : q \in shorter, x \in S}

NoConn == [open |-> FALSE, url |-> <<>>, id |-> 0]
NoEval == [verdict |-> "none", parsed |-> 0]
NoHist == [variant |-> "current", exchanges |-> 0, handled |-> 0]
\* A definition without headers.
NoHeaders == <<>>

Init ==
    /\ def \in [URL : URLs, SetupBody : SetupBodies, Body : {BODY_TPL},
                 Headers : {NoHeaders},
                 StopWhen : SeqsUpTo(Exprs, MaxStop), Lists : ListChoices]
    /\ LastResponse = ZeroSimpleResponse
    /\ webSocket = NoConn
    /\ c \in [Host : {"localhost"}, Iteration : {0}, Page : {0}, PageSize : PageSizes,
               ResultOffset : {0}, AuthToken : {"token"}, Extra : {"extra"},
               ListParams : {<<>>}, LastResponse : {"nil"}]
    /\ pc = "advance"
    /\ fault = "none"
    /\ reqCount = 0
    /\ body = ""
    /\ shouldContinue = FALSE
    /\ lastEval = NoEval
    /\ bound = <<>>
    /\ received = <<>>
    /\ handled = <<>>
    /\ wsLog = <<>>
    /\ dials = <<>>
    /\ runs = 1
    /\ hist = NoHist
    /\ headerTemplates = {}

(* --------------------------- Recurse: advance -------------------------- *)

\* Mutant: the page is the loop counter itself and the offset follows the page.
AdvanceContext_PageIsCount(ctx, n) ==
    [ctx EXCEPT !.Iteration = n,
                !.Page = n,
                !.ResultOffset = ctx.PageSize * (n + 1),
                !.LastResponse = "&tr.LastResponse"]

\* Mutant: the pointer to tr.LastResponse is not set.
AdvanceContext_NoLastResponse(ctx, n) ==
    [ctx EXCEPT !.Iteration = n,
                !.Page = n + 1,
                !.ResultOffset = ctx.PageSize * n]

\* run.go:582-585: the counters and the pointer to tr.LastResponse.
AdvanceContext(ctx, n) ==
    [ctx EXCEPT !.Iteration = n,
                !.Page = n + 1,
                !.ResultOffset = ctx.PageSize * n,
                !.LastResponse = "&tr.LastResponse"]

RECURSIVE ListLoop_KeepEmpty(_, _, _, _)
\* Mutant: an empty value is appended like any other.
ListLoop_KeepEmpty(lists, j, n, acc) ==
    IF j > Len(lists) THEN [params |-> acc, outOfRange |-> FALSE]
    ELSE IF n >= Len(lists[j]) THEN [params |-> acc, outOfRange |-> TRUE]
    ELSE ListLoop_KeepEmpty(lists, j + 1, n, Append(acc, lists[j][n + 1]))

RECURSIVE ListLoop_Wrap(_, _, _, _)
\* Mutant: the index wraps around the list's end.
ListLoop_Wrap(lists, j, n, acc) ==
    IF j > Len(lists) THEN [params |-> acc, outOfRange |-> FALSE]
    ELSE IF Len(lists[j]) = 0 THEN [params |-> acc, outOfRange |-> TRUE]
    ELSE LET val == lists[j][(n % Len(lists[j])) + 1]
         IN  ListLoop_Wrap(lists, j + 1, n,
                           IF val # "" THEN Append(acc, val) ELSE acc)

\* run.go:589-595 from list j on: list[reqCount] of every list in order, empty
\* values skipped; indexing past a list's end is Go's index-out-of-range panic.
RECURSIVE ListLoop(_, _, _, _)
ListLoop(lists, j, n, acc) ==
    IF j > Len(lists) THEN [params |-> acc, outOfRange |-> FALSE]
    ELSE IF n >= Len(lists[j]) THEN [params |-> acc, outOfRange |-> TRUE]
    ELSE LET val == lists[j][n + 1]
         IN  ListLoop(lists, j + 1, n,
                      IF val # "" THEN Append(acc, val) ELSE acc)

\* Mutant: c.ListParams is reset on every iteration, lists or not.
ListFeed_AlwaysReset(lists, n, old) ==
    IF Len(lists) > 0 THEN ListLoop(lists, 1, n, <<>>)
    ELSE [params |-> <<>>, outOfRange |-> FALSE]

\* Mutant: the lists are not consulted.
ListFeed_NoLists(lists, n, old) == [params |-> old, outOfRange |-> FALSE]

\* run.go:587-596: c.ListParams is reset and refilled only when lists are configured.
ListFeed(lists, n, old) ==
    IF Len(lists) > 0 THEN ListLoop(lists, 1, n, <<>>)
    ELSE [params |-> old, outOfRange |-> FALSE]

Advance ==
    /\ pc = "advance"
    /\ reqCount < MaxIter
    /\ LET feed == ListFeed(def.Lists, reqCount, c.ListParams)
       IN  /\ c' = [AdvanceContext(c, reqCount) EXCEPT !.ListParams = feed.params]
           /\ IF feed.outOfRange
              THEN pc' = "panic" /\ fault' = "index out of range"
              ELSE pc' = "send" /\ fault' = fault
    /\ UNCHANGED <<def, LastResponse, webSocket, reqCount, body, shouldContinue,
                   lastEval, bound, received, handled, wsLog, dials, runs, hist,
                   headerTemplates>>

(* ----------------------------- Send ------------------------------------ *)

(* ----------------------------- headers --------------------------------- *)

\* The characters sanitizeRegExp keeps, [a-zA-Z0-9_-], among those the modelled
\* texts are written with.
SafeChars ==
    {"a", "b", "c", "d", "e", "f", "g", "h", "i", "j", "k", "l", "m", "n", "o", "p",
     "q", "r", "s", "t", "u", "v", "w", "x", "y", "z", "A", "H", "X",
     "0", "1", "2", "3", "4", "5", "6", "7", "8", "9", "_", "-"}

\* strings.ToLower and its inverse on the letters the modelled names use.
ToLower(ch) ==
    CASE ch = "A" -> "a" [] ch = "H" -> "h" [] ch = "X" -> "x" [] OTHER -> ch
ToUpper(ch) ==
    CASE ch = "a" -> "A" [] ch = "h" -> "H" [] ch = "x" -> "X" [] OTHER -> ch

\* What sanitizeRegExp leaves of one element of a lowered text: a kept
\* character, or the field name of an action ("{{.Page}}" becomes "page").
SanitizeTok(tok) ==
    CASE tok = "{{.Page}}" -> <<"page">>
      [] tok = "{{.Iteration}}" -> <<"iteration">>
      [] tok = "{{.ResultOffset}}" -> <<"resultoffset">>
      [] tok = "{{.Missing}}" -> <<"missing">>
      [] tok \in SafeChars -> <<ToLower(tok)>>
      [] OTHER -> <<>>

RECURSIVE Sanitize(_)
\* run.go:262, 269: sanitizeRegExp.ReplaceAllString(strings.ToLower(text), "").
Sanitize(text) ==
    IF text = <<>> THEN <<>>
    ELSE SanitizeTok(Head(text)) \o Sanitize(Tail(text))

\* run.go:264-266: the prefix of the engine's template names (the method is one
\* and the same for an engine and is left out).
getTemplatePrefix == Sanitize(def.URL)

\* run.go:268-271: prefix, "_header_", the index, "_", the sanitized header.
getHeaderTplKey(header, index) ==
    [prefix |-> getTemplatePrefix, index |-> index, header |-> Sanitize(header)]

RECURSIVE HeaderTemplatesLoop(_, _, _, _)
\* run.go:288-297: the range over tr.Headers, visited in the sequence order; i
\* is the loop's index variable, which the loop never increments.  A pair is
\* compiled only when its key is not in the cache yet.
HeaderTemplatesLoop(order, n, i, cache) ==
    IF n > Len(order) THEN cache
    ELSE LET key == getHeaderTplKey(order[n].name, i)
         IN  IF \E e \in cache : e.key = key
             THEN HeaderTemplatesLoop(order, n + 1, i, cache)
             ELSE HeaderTemplatesLoop(order, n + 1, i,
                      cache \cup {[key |-> key, name |-> order[n].name,
                                   value |-> order[n].value]})

\* run.go:283-300: HeaderTemplates() with i := 0.
HeaderTemplates(order, cache) == HeaderTemplatesLoop(order, 1, 0, cache)

RECURSIVE CanonicalMIMEHeaderKey(_, _)
\* http.Header.Set canonicalizes the name: the first letter and every letter
\* after a hyphen in upper case, the others in lower case.
CanonicalMIMEHeaderKey(name, upper) ==
    IF name = <<>> THEN <<>>
    ELSE <<IF upper THEN ToUpper(Head(name)) ELSE ToLower(Head(name))>>
         \o CanonicalMIMEHeaderKey(Tail(name), Head(name) = "-")

\* httpHeader.Set(name, val): the value replaces what the name had.
SetHeader(h, name, val) ==
    LET key == CanonicalMIMEHeaderKey(name, TRUE)
    IN  {e \in h : e.name # key} \cup {[name |-> key, value |-> val]}

RECURSIVE RenderHeadersLoop(_, _, _, _)
\* run.go:339-354: the range over the cached pairs, visited in the sequence
\* order: both templates are executed and the header is set; an Execute error
\* panics.
RenderHeadersLoop(order, n, ctx, h) ==
    IF n > Len(order) THEN [headers |-> h, failed |-> FALSE]
    ELSE IF ExecuteFails(order[n].name) \/ ExecuteFails(order[n].value)
         THEN [headers |-> h, failed |-> TRUE]
    ELSE RenderHeadersLoop(order, n + 1, ctx,
             SetHeader(h, Execute(order[n].name, ctx), Execute(order[n].value, ctx)))

\* The orders in which a range over a Go map with the entries S may visit them.
MapOrders(S) ==
    {f \in [1..Cardinality(S) -> S] :
        \A i, j \in 1..Cardinality(S) : f[i] = f[j] => i = j}

\* The configured headers as the map tr.Headers.
HeaderMap(headers) == {headers[i] : i \in 1..Len(headers)}

\* What binding the headers in Send can give: the cache after HeaderTemplates()
\* and the rendered header set, for every order the two ranges may take.
HeaderBindings ==
    UNION {
        LET cache == HeaderTemplates(ho, headerTemplates)
        IN  {[cache |-> cache,
              headers |-> RenderHeadersLoop(co, 1, c, {}).headers,
              failed |-> RenderHeadersLoop(co, 1, c, {}).failed] :
                 co \in MapOrders(cache)} :
        ho \in MapOrders(HeaderMap(def.Headers))}

\* Mutant: the error Send returned is dropped and the loop goes on.
OnSendErr_GoOn == "advance"

\* run.go:599-601: Recurse panics with the error Send returned.
OnSendErr == "panic"

HTTP_PREFIX == <<"h", "t", "t", "p">>
WS_PREFIX == <<"w", "s", ":">>

\* What the templates of this Send call see: the context, with c.LastResponse
\* followed to tr.LastResponse, and the rendered URL and body.
Binding ==
    [Iteration |-> c.Iteration, Page |-> c.Page, ResultOffset |-> c.ResultOffset,
     ListParams |-> c.ListParams,
     LastResponseNil |-> (c.LastResponse = "nil"),
     LastResponse |-> LastResponse,
     url |-> Execute(def.URL, c), body |-> Execute(def.Body, c),
     headers |-> {}]

\* run.go:356-390: the HTTP branch, the server answering with one of statuses.
\* The status is not looked at: client.Do returns no error for it.
SendHTTPWith(statuses) ==
    /\ pc = "send"
    /\ HasPrefix(Execute(def.URL, c), HTTP_PREFIX)
    /\ \E h \in HeaderBindings :
          /\ ~h.failed
          /\ headerTemplates' = h.cache
          /\ bound' = Append(bound, [Binding EXCEPT !.headers = h.headers])
    /\ \/ \E failed \in {"http.NewRequest", "client.Do", "io.ReadAll"} :
            \* return nil, false, err; Recurse panics
            /\ pc' = OnSendErr
            /\ fault' = failed
            /\ UNCHANGED <<LastResponse, body, shouldContinue, lastEval, received>>
       \/ \E status \in statuses, b \in Bodies :
            LET resp == [status |-> status, body |-> b,
                         path |-> URLPath(Execute(def.URL, c))]
                ev == ShouldContinueHTTP(def.StopWhen, resp)
            IN  /\ received' = Append(received, [proto |-> "http", status |-> status,
                                                  body |-> b, path |-> resp.path])
                /\ LastResponse' = IF Len(def.StopWhen) = 0 THEN LastResponse
                                   ELSE NormalizeHTTP(resp)
                /\ lastEval' = ev
                /\ IF ev.verdict = "panic"
                   THEN /\ pc' = "panic"
                        /\ fault' = "gojq.Parse"
                        /\ UNCHANGED <<body, shouldContinue>>
                   ELSE /\ pc' = "dispatch"
                        /\ fault' = fault
                        /\ body' = b
                        /\ shouldContinue' = (ev.verdict = "continue")
    /\ UNCHANGED <<def, webSocket, c, reqCount, handled, wsLog, dials, runs, hist>>

\* run.go:356-390: the HTTP branch against a server that answers 200.
SendHTTP == SendHTTPWith(HTTPStatuses)

\* Mutant: every call dials.
GetWS_AlwaysDial(ws, requestURL, dialed) ==
    [conn |-> [open |-> TRUE, url |-> requestURL, id |-> Len(dialed) + 1],
     dialed |-> Append(dialed, requestURL)]

\* getWS: dial on first use, cache in tr.webSocket, reuse afterwards.
GetWS(ws, requestURL, dialed) ==
    IF ~ws.open
    THEN [conn |-> [open |-> TRUE, url |-> requestURL, id |-> Len(dialed) + 1],
          dialed |-> Append(dialed, requestURL)]
    ELSE [conn |-> ws, dialed |-> dialed]

\* Mutant: the iteration is not looked at.
NeedsSetup_EveryIteration(ctx, setupBody) == setupBody # <<>>

\* run.go:397: the setup body is sent on iteration 0 when it is not empty.
NeedsSetup(ctx, setupBody) == ctx.Iteration = 0 /\ setupBody # <<>>

WsOp(op, id, ok, text, msg) ==
    [op |-> op, iter |-> c.Iteration, conn |-> id, ok |-> ok, text |-> text, msg |-> msg]

\* Mutant: the setup body is written and its reply is left unread.
SetupOps_NoRead(ctx, setupBody, id) ==
    IF NeedsSetup(ctx, setupBody)
    THEN <<WsOp("write_setup", id, TRUE, setupBody, "")>>
    ELSE <<>>

\* run.go:397-408: the setup body is written and one reply is read and dropped.
SetupOps(ctx, setupBody, id) ==
    IF NeedsSetup(ctx, setupBody)
    THEN <<WsOp("write_setup", id, TRUE, setupBody, ""),
           WsOp("read_setup", id, TRUE, <<>>, "")>>
    ELSE <<>>

\* run.go:391-420: the WebSocket branch.
SendWS ==
    /\ pc = "send"
    /\ ~HasPrefix(Execute(def.URL, c), HTTP_PREFIX)
    /\ HasPrefix(Execute(def.URL, c), WS_PREFIX)
    /\ \E h \in HeaderBindings :
          /\ ~h.failed
          /\ headerTemplates' = h.cache
          /\ bound' = Append(bound, [Binding EXCEPT !.headers = h.headers])
    /\ LET got == GetWS(webSocket, Execute(def.URL, c), dials)
           id == got.conn.id
           setup == SetupOps(c, def.SetupBody, id)
           text == Execute(def.Body, c)
       IN  /\ dials' = got.dialed
           /\ \/ \* Dial fails: getWS panics, tr.webSocket stays nil
                 /\ ~webSocket.open
                 /\ pc' = "panic" /\ fault' = "Dial"
                 /\ UNCHANGED <<webSocket, wsLog, body, shouldContinue, lastEval, received>>
              \/ \* writing the setup body fails: return nil, false, err
                 /\ NeedsSetup(c, def.SetupBody)
                 /\ webSocket' = got.conn
                 /\ wsLog' = Append(wsLog, WsOp("write_setup", id, FALSE, def.SetupBody, ""))
                 /\ pc' = OnSendErr /\ fault' = "ws.WriteMessage"
                 /\ UNCHANGED <<body, shouldContinue, lastEval, received>>
              \/ \* reading the setup reply fails: log.Fatal
                 /\ NeedsSetup(c, def.SetupBody)
                 /\ webSocket' = got.conn
                 /\ wsLog' = wsLog \o <<setup[1], WsOp("read_setup", id, FALSE, <<>>, "")>>
                 /\ pc' = "fatal" /\ fault' = "ws.ReadMessage"
                 /\ UNCHANGED <<body, shouldContinue, lastEval, received>>
              \/ \* writing the body fails: return nil, false, err
                 /\ webSocket' = got.conn
                 /\ wsLog' = wsLog \o setup \o <<WsOp("write", id, FALSE, text, "")>>
                 /\ pc' = OnSendErr /\ fault' = "ws.WriteMessage"
                 /\ UNCHANGED <<body, shouldContinue, lastEval, received>>
              \/ \* reading the reply fails: log.Fatal
                 /\ webSocket' = got.conn
                 /\ wsLog' = wsLog \o setup \o <<WsOp("write", id, TRUE, text, ""),
                                                  WsOp("read", id, FALSE, <<>>, "")>>
                 /\ pc' = "fatal" /\ fault' = "ws.ReadMessage"
                 /\ UNCHANGED <<body, shouldContinue, lastEval, received>>
              \/ \E msg \in Bodies :
                   LET ev == ShouldContinueWS(def.StopWhen, msg)
                   IN  /\ webSocket' = got.conn
                       /\ wsLog' = wsLog \o setup \o <<WsOp("write", id, TRUE, text, ""),
                                                        WsOp("read", id, TRUE, <<>>, msg)>>
                       /\ received' = Append(received, [proto |-> "ws", status |-> 0,
                                                         body |-> msg, path |-> <<>>])
                       /\ lastEval' = ev
                       /\ IF ev.verdict = "panic"
                          THEN /\ pc' = "panic"
                               /\ fault' = "gojq.Parse"
                               /\ UNCHANGED <<body, shouldContinue>>
                          ELSE /\ pc' = "dispatch"
                               /\ fault' = fault
                               /\ body' = msg
                               /\ shouldContinue' = (ev.verdict = "continue")
    /\ UNCHANGED <<def, LastResponse, c, reqCount, handled, runs, hist>>

\* run.go:422: any other rendered URL is "invalid request"; Recurse panics.
SendInvalid ==
    /\ pc = "send"
    /\ ~HasPrefix(Execute(def.URL, c), HTTP_PREFIX)
    /\ ~HasPrefix(Execute(def.URL, c), WS_PREFIX)
    /\ \E h \in HeaderBindings :
          /\ ~h.failed
          /\ headerTemplates' = h.cache
          /\ bound' = Append(bound, [Binding EXCEPT !.headers = h.headers])
    /\ pc' = OnSendErr
    /\ fault' = "invalid request"
    /\ UNCHANGED <<def, LastResponse, webSocket, c, reqCount, body, shouldContinue,
                   lastEval, received, handled, wsLog, dials, runs, hist>>

(* --------------------------- Recurse: dispatch ------------------------- *)

\* Mutant: the verdict is looked at first, so the last response is not handled.
Dispatch_ReturnFirst ==
    /\ pc = "dispatch"
    /\ IF ~shouldContinue
       THEN pc' = "done" /\ reqCount' = reqCount /\ handled' = handled
       ELSE pc' = "advance" /\ reqCount' = reqCount + 1
            /\ handled' = Append(handled, body)
    /\ UNCHANGED <<def, LastResponse, webSocket, c, fault, body, shouldContinue,
                   lastEval, bound, received, wsLog, dials, runs, hist,
                   headerTemplates>>

\* run.go:603-607: the callback, then return or the next iteration.
Dispatch ==
    /\ pc = "dispatch"
    /\ handled' = Append(handled, body)
    /\ IF ~shouldContinue
       THEN pc' = "done" /\ reqCount' = reqCount
       ELSE pc' = "advance" /\ reqCount' = reqCount + 1
    /\ UNCHANGED <<def, LastResponse, webSocket, c, fault, body, shouldContinue,
                   lastEval, bound, received, wsLog, dials, runs, hist,
                   headerTemplates>>

\* The caller calls Recurse again on the same TemplateRequest and context.
RecurseAgain ==
    /\ pc = "done"
    /\ runs < MaxRuns
    /\ runs' = runs + 1
    /\ pc' = "advance"
    /\ reqCount' = 0
    /\ body' = ""
    /\ shouldContinue' = FALSE
    /\ lastEval' = NoEval
    /\ bound' = <<>>
    /\ received' = <<>>
    /\ handled' = <<>>
    /\ wsLog' = <<>>
    /\ UNCHANGED <<def, LastResponse, webSocket, c, fault, dials, hist, headerTemplates>>

Next ==
    \/ Advance
    \/ SendHTTP
    \/ SendWS
    \/ SendInvalid
    \/ Dispatch
    \/ RecurseAgain

Spec == Init /\ [][Next]_vars

(* ------------------------------ claims --------------------------------- *)

\* The value the stop expressions were run against for a received response.
QueriedValue(rec) ==
    IF rec.proto = "http"
    THEN Remarshal(NormalizeHTTP([status |-> rec.status, body |-> rec.body,
                                  path |-> rec.path]))
    ELSE Remarshal(NormalizeWS(rec.body))

\* A non-null JSON value.
IsValue(v) == v \in {V_FALSE, V_TRUE, V_OBJECT}

\* The stream produces nothing but nulls up to its end or its first halt with a
\* null payload.
Quiet(stream) ==
    \A i \in 1..Len(stream) :
        (\A j \in 1..i : stream[j] # HALT_NIL) => stream[i] = V_NULL

\* The first item of a stream that is not Quiet which is neither null nor
\* preceded by a halt.
FirstLoud(stream) ==
    stream[CHOOSE i \in 1..Len(stream) :
              /\ stream[i] # V_NULL
              /\ \A j \in 1..i : stream[j] # HALT_NIL
              /\ \A j \in 1..(i - 1) : stream[j] = V_NULL]

\* Expressions 1..k-1 parse and their streams are Quiet on r.
QuietBefore(stopWhen, r, k) ==
    \A j \in 1..(k - 1) : Parses(stopWhen[j]) /\ Quiet(Run(stopWhen[j], r))

\* C1: with an empty stop_when list a run performs exactly one exchange and one
\* callback invocation, then returns: never a second exchange, the verdict of
\* the one exchange is "do not continue", and a returned run has one of each.
C1_EmptyStopWhenOneExchange ==
    def.StopWhen = <<>> =>
        /\ Len(received) <= 1
        /\ Len(handled) <= Len(received)
        /\ Len(received) = 1 => pc \in {"dispatch", "done"} /\ ~shouldContinue
        /\ pc = "dispatch" => Len(handled) = 0
        /\ pc = "done" => Len(received) = 1 /\ handled = <<received[1].body>>

C1_Witness ==
    /\ def.StopWhen = <<>>
    /\ pc = "done"
    /\ Len(received) = 1
    /\ handled = <<B_FALSE>>
    /\ runs = 2

\* Some expression of the list produces a non-null value on r.
SomeExprMatches(stopWhen, r) ==
    \E k \in 1..Len(stopWhen) :
        /\ Parses(stopWhen[k])
        /\ \E i \in 1..Len(Run(stopWhen[k], r)) : IsValue(Run(stopWhen[k], r)[i])

\* C2: with a non-empty stop_when list, a response on which some expression
\* matches is the last exchange of its run: the run is about to return (or has
\* returned, or an earlier expression failed to parse), and no exchange follows.
C2_MatchEndsRun ==
    def.StopWhen # <<>> =>
        \A k \in 1..Len(received) :
            SomeExprMatches(def.StopWhen, QueriedValue(received[k])) =>
                /\ k = Len(received)
                /\ \/ pc = "dispatch" /\ ~shouldContinue
                   \/ pc = "done"
                   \/ pc = "panic" /\ fault = "gojq.Parse"

C2_Witness ==
    /\ def.StopWhen = <<E_SEL>>
    /\ pc = "done"
    /\ Len(received) = 2
    /\ ~SomeExprMatches(def.StopWhen, QueriedValue(received[1]))
    /\ SomeExprMatches(def.StopWhen, QueriedValue(received[2]))

\* The response the last evaluation was run against.
LastQueried == QueriedValue(received[Len(received)])

\* An evaluation has just been made in this run.
Evaluated == lastEval.verdict # "none" /\ Len(received) > 0

\* C3: an expression whose only results on a response are the boolean false (or
\* null) is no match: with every expression of a non-empty list parsing and
\* producing only such results, the evaluator returns continue = true; so
\* '.body_object.done == true' continues on {"done": false} and stops on
\* {"done": true}.
C3_FalseIsNoMatch ==
    (/\ pc = "dispatch"
     /\ def.StopWhen # <<>>
     /\ \A k \in 1..Len(def.StopWhen) :
            /\ Parses(def.StopWhen[k])
            /\ \A i \in 1..Len(Run(def.StopWhen[k], LastQueried)) :
                   Run(def.StopWhen[k], LastQueried)[i] \in {V_FALSE, V_NULL})
        => shouldContinue

\* C4: for a non-empty list, continue = true exactly when every expression parses
\* and its stream ends, or is cut by a halt with a null payload, having produced
\* only nulls; when the first thing other than null that the evaluation meets
\* is a non-null value of expression k, the verdict is continue = false and
\* expressions after k are not evaluated; a halt with a null payload in
\* expression k, met before any such thing, moves on past k.
C4_ContinueIffAllQuiet ==
    (Evaluated /\ def.StopWhen # <<>>) =>
        LET sw == def.StopWhen
            r == LastQueried
        IN  /\ lastEval.verdict = "continue" <=>
                   \A k \in 1..Len(sw) : Parses(sw[k]) /\ Quiet(Run(sw[k], r))
            /\ \A k \in 1..Len(sw) :
                   (/\ QuietBefore(sw, r, k)
                    /\ Parses(sw[k])
                    /\ ~Quiet(Run(sw[k], r))
                    /\ IsValue(FirstLoud(Run(sw[k], r))))
                       => lastEval = [verdict |-> "stop", parsed |-> k]
            /\ \A k \in 1..Len(sw) :
                   (/\ QuietBefore(sw, r, k)
                    /\ Parses(sw[k])
                    /\ Quiet(Run(sw[k], r))
                    /\ \E i \in 1..Len(Run(sw[k], r)) : Run(sw[k], r)[i] = HALT_NIL)
                       => IF k = Len(sw)
                          THEN lastEval = [verdict |-> "continue", parsed |-> k]
                          ELSE lastEval.parsed > k

C4_Witness ==
    /\ def.StopWhen = <<E_HALT, E_GET>>
    /\ pc = "dispatch"
    /\ received[Len(received)].body = B_TRUE
    /\ lastEval = [verdict |-> "stop", parsed |-> 2]
    /\ ~shouldContinue

\* The evaluation meets an error before any non-null value: an expression that
\* does not parse, or a runtime error in a stream.
ReachesError(stopWhen, r) ==
    \E k \in 1..Len(stopWhen) :
        /\ QuietBefore(stopWhen, r, k)
        /\ \/ ~Parses(stopWhen[k])
           \/ /\ ~Quiet(Run(stopWhen[k], r))
              /\ FirstLoud(Run(stopWhen[k], r)) = RUNTIME_ERROR

\* C5: a parse error or a runtime evaluation error that the evaluator reaches
\* aborts the run: it is never turned into a verdict.
C5_ErrorIsFatal ==
    (Evaluated /\ ReachesError(def.StopWhen, LastQueried)) =>
        pc \in {"panic", "fatal"}

\* C6: without lists, the k-th Send call of a run (k from 0) is bound with
\* Iteration = k, Page = k + 1 and ResultOffset = PageSize * k.
C6_CountersPerIteration ==
    def.Lists = <<>> =>
        /\ \A k \in 1..Len(bound) :
               /\ bound[k].Iteration = k - 1
               /\ bound[k].Page = k
               /\ bound[k].ResultOffset = c.PageSize * (k - 1)
        /\ pc = "send" =>
               /\ c.Iteration = Len(bound)
               /\ c.Page = Len(bound) + 1
               /\ c.ResultOffset = c.PageSize * Len(bound)

C6_Witness ==
    /\ def.Lists = <<>>
    /\ c.PageSize = 10
    /\ Len(bound) = 3
    /\ bound[3].Page = 3
    /\ bound[3].ResultOffset = 20

\* lists[j][i] for every list j, in list order (i counted from 0).
Column(lists, i) == [j \in 1..Len(lists) |-> lists[j][i + 1]]

NonEmpty(val) == val # ""

\* The length of the shortest configured list.
MinLen(lists) ==
    CHOOSE n \in {Len(lists[j]) : j \in 1..Len(lists)} :
        \A j \in 1..Len(lists) : n <= Len(lists[j])

\* C7 as stated: with n lists, every bound iteration i has exactly n ListParams,
\* ListParams[j] = lists[j][i], whatever the lists hold.
C7_ExactlyOnePerList ==
    Len(def.Lists) > 0 =>
        \A k \in 1..Len(bound) :
            /\ Len(bound[k].ListParams) = Len(def.Lists)
            /\ bound[k].ListParams = Column(def.Lists, k - 1)

\* C7 amended: with n lists, every bound iteration i sees the non-empty values
\* among lists[0][i], ..., lists[n-1][i], in list order (an empty value is
\* skipped, not substituted), which are exactly the n values lists[j][i] when
\* none is empty; and a run binds at most as many iterations as the shortest
\* list is long (at most 3 with two lists of length 3).
C7_NonEmptyPerList ==
    Len(def.Lists) > 0 =>
        /\ \A k \in 1..Len(bound) :
               /\ k <= MinLen(def.Lists)
               /\ bound[k].ListParams = SelectSeq(Column(def.Lists, k - 1), NonEmpty)
               /\ (\A j \in 1..Len(def.Lists) : def.Lists[j][k] # "")
                      => bound[k].ListParams = Column(def.Lists, k - 1)
        /\ Len(received) <= MinLen(def.Lists)

C7_Witness ==
    /\ def.Lists = << <<"a", "", "c">>, <<"x", "y">> >>
    /\ Len(bound) = 2
    /\ bound[1].ListParams = <<"a", "x">>
    /\ bound[2].ListParams = <<"y">>

\* C8: with lists configured, the iteration whose index is the length of the
\* shortest list ends the run with the index-out-of-range fault before anything
\* is bound or sent for it, and no earlier iteration does: values are never
\* wrapped around or repeated.
C8_OutOfRangeFault ==
    Len(def.Lists) > 0 =>
        LET m == MinLen(def.Lists)
        IN  /\ Len(bound) <= m
            /\ (pc # "advance" /\ reqCount >= m) =>
                   /\ reqCount = m
                   /\ pc = "panic" /\ fault = "index out of range"
                   /\ Len(bound) = m /\ Len(received) = m /\ Len(handled) = m
            /\ fault = "index out of range" => reqCount = m
            /\ \A k \in 1..Len(bound) :
                   \A p \in 1..Len(bound[k].ListParams) :
                       \E j \in 1..Len(def.Lists) :
                           /\ k <= Len(def.Lists[j])
                           /\ bound[k].ListParams[p] = def.Lists[j][k]

C8_Witness ==
    /\ def.Lists = << <<"a", "b">> >>
    /\ pc = "panic"
    /\ fault = "index out of range"
    /\ c.Iteration = 2
    /\ Len(received) = 2
    /\ Len(bound) = 2

\* The positions of wsLog holding operation op.
OpsOf(op) == {i \in 1..Len(wsLog) : wsLog[i].op = op}

\* C9: in a run against a WebSocket URL, the setup body is written and one reply
\* read only on iteration 0 and only when setup_body is not empty: then exactly
\* one setup write and one setup read come before the first write of a body;
\* no setup operation happens on a later iteration or with an empty setup_body.
C9_SetupOnceOnIterationZero ==
    def.URL = URL_WS =>
        /\ \A i \in OpsOf("write_setup") \cup OpsOf("read_setup") :
               wsLog[i].iter = 0 /\ def.SetupBody # <<>>
        /\ Cardinality(OpsOf("write_setup")) <= 1
        /\ Cardinality(OpsOf("read_setup")) <= 1
        /\ (def.SetupBody # <<>> /\ OpsOf("write") # {}) =>
               /\ wsLog[1].op = "write_setup" /\ wsLog[1].ok
               /\ wsLog[1].text = def.SetupBody
               /\ wsLog[2].op = "read_setup" /\ wsLog[2].ok
               /\ wsLog[3].op = "write"
               /\ OpsOf("write_setup") = {1} /\ OpsOf("read_setup") = {2}
        /\ def.SetupBody = <<>> =>
               (OpsOf("write") # {} => wsLog[1].op = "write")

C9_Witness ==
    /\ def.URL = URL_WS
    /\ def.SetupBody = SETUP_HELLO
    /\ Len(received) = 2
    /\ Len(wsLog) = 6
    /\ wsLog[5].op = "write" /\ wsLog[5].iter = 1

\* C10: over the engine's lifetime the WebSocket connection is dialed at most
\* once, by the first WebSocket exchange, and every operation of every later
\* exchange and run goes over that connection, whatever URL is rendered.
C10_DialedAtMostOnce ==
    /\ Len(dials) <= 1
    /\ webSocket.open => dials = <<webSocket.url>> /\ webSocket.id = 1
    /\ \A i \in 1..Len(wsLog) : webSocket.open /\ wsLog[i].conn = 1
    /\ Len(dials) = 1 =>
           dials[1] = Execute(def.URL, [c EXCEPT !.Iteration = 0, !.Page = 1])

C10_Witness ==
    /\ runs = 2
    /\ Len(received) = 2
    /\ Len(dials) = 1
    /\ bound[2].url # dials[1]
    /\ wsLog[Len(wsLog)].iter = 1
    /\ wsLog[Len(wsLog)].conn = 1

(* --------------------- claims: transports and errors ------------------- *)

RECURSIVE Scheme(_)
\* The scheme of a URL: its text before the first ":".
Scheme(u) ==
    IF u = <<>> \/ Head(u) = ":" THEN <<>>
    ELSE <<Head(u)>> \o Scheme(Tail(u))

HTTPSchemes == {<<"h", "t", "t", "p">>, <<"h", "t", "t", "p", "s">>}
WebSocketSchemes == {<<"w", "s">>, <<"w", "s", "s">>}

\* The WebSocket operations of the Send call of iteration i.
WsOpsOf(i) == {n \in 1..Len(wsLog) : wsLog[n].iter = i}

\* C11: Send makes an HTTP exchange exactly when the rendered URL has the HTTP
\* scheme and a WebSocket exchange exactly when it has the WebSocket scheme; for
\* a rendered URL of any other scheme Send returns an error without any network
\* operation, after which Recurse aborts and the callback is not invoked for
\* that iteration.
C11_SchemeDispatch ==
    \A k \in 1..Len(bound) :
        LET s == Scheme(bound[k].url)
        IN  /\ s \in HTTPSchemes =>
                /\ fault # "invalid request"
                /\ k <= Len(received) => received[k].proto = "http"
                /\ WsOpsOf(k - 1) = {}
            /\ s \in WebSocketSchemes =>
                /\ fault # "invalid request"
                /\ k <= Len(received) => received[k].proto = "ws"
            /\ s \notin HTTPSchemes \cup WebSocketSchemes =>
                /\ k = Len(bound)
                /\ pc = "panic" /\ fault = "invalid request"
                /\ Len(received) = k - 1 /\ Len(handled) = k - 1
                /\ WsOpsOf(k - 1) = {}

\* The errors of the transports: building or sending the HTTP request, reading
\* the HTTP body, dialling, writing or reading the WebSocket.
TransportFaults ==
    {"http.NewRequest", "client.Do", "io.ReadAll", "Dial", "ws.WriteMessage",
     "ws.ReadMessage"}

\* The WebSocket operations that failed.
FailedOps == {n \in 1..Len(wsLog) : ~wsLog[n].ok}

\* C12: a transport failure at iteration k ends the run at once: the failing
\* operation is attempted once, no exchange is made for iteration k or later,
\* the callback is not invoked for iteration k, and it has been invoked exactly
\* k times, once for each earlier iteration.
C12_TransportFailureAborts ==
    fault \in TransportFaults =>
        /\ pc \in {"panic", "fatal"}
        /\ ~ENABLED Next
        /\ c.Iteration = reqCount
        /\ Len(bound) = reqCount + 1
        /\ Len(received) = reqCount
        /\ handled = [i \in 1..reqCount |-> received[i].body]
        /\ Cardinality(FailedOps) <= 1
        /\ \A n \in FailedOps : n = Len(wsLog) /\ wsLog[n].iter = reqCount

C12_Witness ==
    /\ fault = "client.Do"
    /\ reqCount = 2
    /\ Len(handled) = 2
    /\ pc = "panic"

(* ------------------ claims: templates that fail to render -------------- *)

\* Templates with an action on a field RequestContext does not have.
URL_MISSING == <<"h", "t", "t", "p", ":", "/", "/", "x", "/", "{{.Missing}}", "/", "p">>
BODY_MISSING == <<"p", "=", "{{.Missing}}", "&", "q">>

\* Everything Init fixes but the loaded definition.
FreshEngine ==
    /\ LastResponse = ZeroSimpleResponse
    /\ webSocket = NoConn
    /\ c \in [Host : {"localhost"}, Iteration : {0}, Page : {0}, PageSize : PageSizes,
               ResultOffset : {0}, AuthToken : {"token"}, Extra : {"extra"},
               ListParams : {<<>>}, LastResponse : {"nil"}]
    /\ pc = "advance"
    /\ fault = "none"
    /\ reqCount = 0
    /\ body = ""
    /\ shouldContinue = FALSE
    /\ lastEval = NoEval
    /\ bound = <<>>
    /\ received = <<>>
    /\ handled = <<>>
    /\ wsLog = <<>>
    /\ dials = <<>>
    /\ runs = 1
    /\ hist = NoHist
    /\ headerTemplates = {}

\* Definitions whose URL or body template may fail to render.
InitRender ==
    /\ def \in [URL : URLs \cup {URL_MISSING}, SetupBody : SetupBodies,
                 Body : {BODY_TPL, BODY_MISSING},
                 Headers : {NoHeaders},
                 StopWhen : SeqsUpTo({E_SEL, E_HALT}, 1), Lists : ListChoices]
    /\ FreshEngine

SpecRender == InitRender /\ [][Next]_vars

\* C13: a rendering failure of a templated field (here the URL or the body) is
\* fatal to the run: no exchange is made with the partially rendered or empty
\* field, and no later iteration runs.
C13_RenderFailureIsFatal ==
    (ExecuteFails(def.URL) \/ ExecuteFails(def.Body)) =>
        /\ received = <<>>
        /\ wsLog = <<>>
        /\ dials = <<>>
        /\ reqCount = 0
        /\ pc \notin {"dispatch", "done"}

(* ------------------ claims: bodies that are not JSON ------------------- *)

\* Definitions whose stop expressions select a parsed form of the body.
InitSelect ==
    /\ def \in [URL : URLs, SetupBody : SetupBodies, Body : {BODY_TPL},
                 Headers : {NoHeaders},
                 StopWhen : SeqsUpTo({E_OBJECT, E_ARRAY, E_SEL}, 1),
                 Lists : ListChoices]
    /\ FreshEngine

SpecSelect == InitSelect /\ [][Next]_vars

\* The body is neither a JSON object nor a JSON array.
ParsesAsNeither(b) == b \notin {B_FALSE, B_TRUE}

\* C14: for a response body that parses neither as a JSON object nor as a JSON
\* array, normalization does not fail the run, and the value the expressions
\* are evaluated against has raw_body equal to the body text and body_object
\* and body_array both null; so a list of expressions that only select
\* .body_object or .body_array has no match on it and the verdict is continue.
C14_UnparsableBodyHasNoForms ==
    (/\ Evaluated
     /\ Len(def.StopWhen) > 0
     /\ ParsesAsNeither(received[Len(received)].body)) =>
        /\ fault = "none"
        /\ LastQueried.raw_body = received[Len(received)].body
        /\ LastQueried.body_object.t = "nil"
        /\ LastQueried.body_array.t = "nil"
        /\ (\A k \in 1..Len(def.StopWhen) : def.StopWhen[k] \in {E_OBJECT, E_ARRAY})
              => lastEval.verdict = "continue"

(* ---------------------- claims: the last response ---------------------- *)

\* The normalized response of a received exchange.
NormalizedOf(rec) ==
    IF rec.proto = "http"
    THEN NormalizeHTTP([status |-> rec.status, body |-> rec.body, path |-> rec.path])
    ELSE NormalizeWS(rec.body)

\* C15: in a run that continues past its first exchange, on every iteration
\* k >= 1 the LastResponse the templates read is the normalized response of
\* iteration k-1 (its raw body is the body exchange k-1 returned), for HTTP and
\* for WebSocket exchanges alike.
C15_LastResponseIsPrevious ==
    \A k \in 2..Len(bound) :
        /\ ~bound[k].LastResponseNil
        /\ bound[k].LastResponse.RawBody = received[k - 1].body
        /\ bound[k].LastResponse = NormalizedOf(received[k - 1])

\* C16 as stated: while the templates of iteration 0 are bound, the context's
\* reference to the last normalized response is nil.
C16_NilOnFirstIteration ==
    Len(bound) >= 1 => bound[1].LastResponseNil

\* C16, amended: the context's reference is nil only until Recurse advances the
\* context; while the templates of iteration 0 (and of every iteration) are
\* bound it refers to the engine's LastResponse, which in an engine's first run
\* is the zero normalized response.
C16_ReferenceSetBeforeBinding ==
    /\ \A k \in 1..Len(bound) : ~bound[k].LastResponseNil
    /\ (runs = 1 /\ Len(bound) >= 1) => bound[1].LastResponse = ZeroSimpleResponse
    /\ (runs = 1 /\ reqCount = 0 /\ pc = "advance") => c.LastResponse = "nil"

C16_Witness ==
    /\ runs = 1
    /\ Len(bound) = 1
    /\ bound[1].Iteration = 0
    /\ ~bound[1].LastResponseNil
    /\ bound[1].LastResponse = ZeroSimpleResponse
    /\ pc = "dispatch"

(* --------------------------- claims: callback -------------------------- *)

\* C17: the callback is invoked once for each exchange Send returned without
\* error, with that exchange's raw body, after the exchange's verdict has been
\* computed and before the context is advanced for the next iteration; the
\* final exchange, on which the run stops, is handled too, so a run that ends
\* without error has as many callback invocations as exchanges.
C17_CallbackPerExchange ==
    /\ Len(handled) <= Len(received)
    /\ \A k \in 1..Len(handled) : handled[k] = received[k].body
    /\ pc \in {"advance", "send"} =>
          /\ Len(handled) = reqCount
          /\ Len(received) = reqCount
    /\ (pc = "advance" /\ reqCount > 0) => c.Iteration = reqCount - 1
    /\ pc = "dispatch" =>
          /\ Len(received) = Len(handled) + 1
          /\ lastEval.verdict \in {"stop", "continue"}
          /\ shouldContinue = (lastEval.verdict = "continue")
          /\ body = received[Len(received)].body
    /\ pc = "done" =>
          /\ Len(handled) = Len(received)
          /\ Len(received) >= 1
          /\ ~shouldContinue
    /\ pc \in {"panic", "fatal"} => Len(handled) = reqCount

C17_Witness ==
    /\ pc = "done"
    /\ Len(received) = 3
    /\ Len(handled) = 3
    /\ lastEval.verdict = "stop"
    /\ handled[3] = B_TRUE

(* -------------------------- claims: termination ------------------------ *)

\* Recurse has returned or the process has ended.
Terminated == pc \in {"done", "panic", "fatal"}

\* One step of the running loop; calling Recurse again is the caller's choice.
RecurseStep == Advance \/ SendHTTP \/ SendWS \/ SendInvalid \/ Dispatch

\* Definitions with at least one list; the expressions are one that matches on
\* some bodies, one that never matches and one that does not parse.
InitLists ==
    /\ def \in [URL : URLs, SetupBody : SetupBodies, Body : {BODY_TPL},
                 Headers : {NoHeaders},
                 StopWhen : SeqsUpTo({E_SEL, E_HALT, E_BAD}, MaxStop),
                 Lists : ListChoices \ {<<>>}]
    /\ FreshEngine

\* The loop keeps running and every exchange returns.
FairSpec == InitLists /\ [][Next]_vars /\ WF_vars(RecurseStep)

\* What holds at every moment of a list-driven run, L being the length of the
\* shortest list.
ListRunBounded ==
    LET L == MinLen(def.Lists)
    IN  /\ reqCount <= L
        /\ Len(received) <= L
        /\ pc = "done" => ~shouldContinue
        /\ fault = "index out of range" =>
              /\ pc = "panic"
              /\ reqCount = L
              /\ Len(received) = L
        /\ (pc = "advance" /\ reqCount < L) => ENABLED Advance

\* C18: with at least one list configured every run terminates, each exchange
\* returning: it makes at most L exchanges, L the length of the shortest list,
\* and ends when the evaluator returns continue = false or with the
\* out-of-range fault, whichever comes first, even if no expression matches.
C18_ListRunsTerminate ==
    /\ [](def.Lists # <<>> => ListRunBounded)
    /\ (def.Lists # <<>> /\ ~Terminated) ~> Terminated

C18_Witness ==
    /\ Len(def.Lists) = 2
    /\ fault = "index out of range"
    /\ Len(received) = 3
    /\ Len(handled) = 3
    /\ shouldContinue

(* ------------------- the oldest variant of Recurse --------------------- *)

\* run.go:164: the loop runs reqCount from 1 to 50.
HistCap == 50

\* Mutant: the loop admits one more iteration.
HistLoopRuns_OneMore(n) == n <= HistCap + 1

\* run.go:164: the loop condition reqCount <= 50.
HistLoopRuns(n) == n <= HistCap

\* run.go:131-135: the body itself is unmarshalled into the queried map; none of
\* the modelled bodies has a key the modelled expressions select.
HistQueried(b) ==
    [path |-> <<>>, status |-> 0, raw_body |-> "", body_object |-> NilMap,
     body_array |-> NilSlice]

\* run.go:143-156: the first item decides: a halt without value ends the
\* stream, another error is fatal, any value (null included) is a match.
HistIterLoop(stream) ==
    IF stream = <<>> THEN "next"
    ELSE IF Head(stream) = HALT_NIL THEN "next"
    ELSE IF Head(stream) = RUNTIME_ERROR THEN "fatal"
    ELSE "stop"

RECURSIVE HistConditionLoop(_, _, _)
\* run.go:137-157: the expressions in order.
HistConditionLoop(stopWhen, r, k) ==
    IF k > Len(stopWhen) THEN "continue"
    ELSE IF ~Parses(stopWhen[k]) THEN "panic"
    ELSE IF HistIterLoop(Run(stopWhen[k], r)) = "next"
         THEN HistConditionLoop(stopWhen, r, k + 1)
    ELSE HistIterLoop(Run(stopWhen[k], r))

\* run.go:126-160: ShouldContinue(body) of the oldest variant.
HistShouldContinue(stopWhen, b) ==
    IF Len(stopWhen) = 0 THEN "stop"
    ELSE IF b \notin {B_FALSE, B_TRUE} THEN "panic"
    ELSE HistConditionLoop(stopWhen, HistQueried(b), 1)

\* The oldest variant is given an HTTP definition without lists or setup body.
InitHist ==
    /\ def \in [URL : {URL_HTTP}, SetupBody : {SETUP_NONE}, Body : {BODY_TPL},
                 Headers : {NoHeaders},
                 StopWhen : SeqsUpTo(Exprs, MaxStop), Lists : {<<>>}]
    /\ LastResponse = ZeroSimpleResponse
    /\ webSocket = NoConn
    /\ c \in [Host : {"localhost"}, Iteration : {0}, Page : {0}, PageSize : PageSizes,
               ResultOffset : {0}, AuthToken : {"token"}, Extra : {"extra"},
               ListParams : {<<>>}, LastResponse : {"nil"}]
    /\ pc = "hist_loop"
    /\ fault = "none"
    /\ reqCount = 1
    /\ body = ""
    /\ shouldContinue = FALSE
    /\ lastEval = NoEval
    /\ bound = <<>>
    /\ received = <<>>
    /\ handled = <<>>
    /\ wsLog = <<>>
    /\ dials = <<>>
    /\ runs = 1
    /\ hist = [variant |-> "first", exchanges |-> 0, handled |-> 0]
    /\ headerTemplates = {}

\* run.go:164-166: the loop test, then c.Page = reqCount; c.PageSize = 50.
HistLoop ==
    /\ pc = "hist_loop"
    /\ IF HistLoopRuns(reqCount)
       THEN /\ c' = [c EXCEPT !.Page = reqCount, !.PageSize = HistCap]
            /\ pc' = "hist_request"
       ELSE /\ c' = c
            /\ pc' = "hist_done"
    /\ UNCHANGED <<def, LastResponse, webSocket, fault, reqCount, body, shouldContinue,
                   lastEval, bound, received, handled, wsLog, dials, runs, hist,
                   headerTemplates>>

\* run.go:168-182: the request is built and sent and the body read; an error panics.
HistRequest ==
    /\ pc = "hist_request"
    /\ \/ \E failed \in {"http.NewRequest", "client.Do", "io.ReadAll"} :
            /\ pc' = "panic"
            /\ fault' = failed
            /\ UNCHANGED <<body, hist>>
       \/ \E b \in Bodies :
            /\ pc' = "hist_dispatch"
            /\ body' = b
            /\ hist' = [hist EXCEPT !.exchanges = @ + 1]
            /\ fault' = fault
    /\ UNCHANGED <<def, LastResponse, webSocket, c, reqCount, shouldContinue,
                   lastEval, bound, received, handled, wsLog, dials, runs,
                   headerTemplates>>

\* run.go:184-188: the callback, then ShouldContinue, then return or reqCount++.
HistDispatch ==
    /\ pc = "hist_dispatch"
    /\ hist' = [hist EXCEPT !.handled = @ + 1]
    /\ LET verdict == HistShouldContinue(def.StopWhen, body)
       IN  /\ lastEval' = [verdict |-> verdict, parsed |-> 0]
           /\ CASE verdict = "panic" ->
                     /\ pc' = "panic"
                     /\ fault' = "ShouldContinue"
                     /\ UNCHANGED <<reqCount, shouldContinue>>
                [] verdict = "fatal" ->
                     /\ pc' = "fatal"
                     /\ fault' = "log.Fatalln"
                     /\ UNCHANGED <<reqCount, shouldContinue>>
                [] verdict = "stop" ->
                     /\ pc' = "hist_done"
                     /\ shouldContinue' = FALSE
                     /\ UNCHANGED <<reqCount, fault>>
                [] verdict = "continue" ->
                     /\ pc' = "hist_loop"
                     /\ shouldContinue' = TRUE
                     /\ reqCount' = reqCount + 1
                     /\ fault' = fault
    /\ UNCHANGED <<def, LastResponse, webSocket, c, body, bound, received, handled,
                   wsLog, dials, runs,
                   headerTemplates>>

\* The current variant given a definition without lists.
InitNoLists ==
    /\ def \in [URL : URLs, SetupBody : SetupBodies, Body : {BODY_TPL},
                 Headers : {NoHeaders},
                 StopWhen : SeqsUpTo({E_SEL, E_HALT, E_BAD}, MaxStop),
                 Lists : {<<>>}]
    /\ FreshEngine

InitVariants == InitHist \/ InitNoLists

NextVariants ==
    \/ HistLoop
    \/ HistRequest
    \/ HistDispatch
    \/ Next

SpecVariants == InitVariants /\ [][NextVariants]_vars

\* C19: in the oldest variant of Recurse (reqCount from 1 to 50) a run makes at
\* most 50 exchanges whatever the responses are and returns after the 50th
\* even when no expression ever matches; the current variant without lists has
\* no such cap: it returns only on a stop verdict and otherwise goes on to the
\* next iteration.
C19_CapFiftyOnlyInOldest ==
    /\ hist.variant = "first" =>
          /\ hist.exchanges <= HistCap
          /\ hist.handled <= hist.exchanges
          /\ reqCount <= HistCap + 1
          /\ (pc = "hist_done" /\ shouldContinue) =>
                /\ hist.exchanges = HistCap
                /\ hist.handled = HistCap
          /\ pc = "hist_loop" => ENABLED HistLoop
    /\ hist.variant = "current" =>
          /\ pc = "done" => ~shouldContinue
          /\ fault # "index out of range"
          /\ (pc = "dispatch" /\ shouldContinue) => ENABLED Dispatch
          /\ pc \in {"advance", "send"} => Len(received) = reqCount
          /\ (pc = "advance" /\ reqCount < MaxIter) => ENABLED Advance

C19_Witness ==
    /\ hist.variant = "first"
    /\ pc = "hist_done"
    /\ shouldContinue
    /\ hist.exchanges = HistCap
    /\ lastEval.verdict = "continue"

(* ----------------------- claims: WebSocket order ----------------------- *)

IsWrite(o) == o.op \in {"write_setup", "write"}
IsRead(o) == o.op \in {"read_setup", "read"}

\* The positions in wsLog of the operation op of iteration i.
OpsAt(op, i) == {n \in 1..Len(wsLog) : wsLog[n].op = op /\ wsLog[n].iter = i}

\* C20: on a WebSocket connection the operations alternate write, read, write,
\* read, ...: every write that succeeded is followed by exactly one read before
\* the next write; each counted exchange is one write of the rendered body
\* followed by one read, and the bytes returned for it are that read's message.
C20_WriteReadAlternate ==
    /\ \A n \in 1..Len(wsLog) :
          /\ n % 2 = 1 => IsWrite(wsLog[n])
          /\ n % 2 = 0 =>
                /\ IsRead(wsLog[n])
                /\ wsLog[n - 1].ok
                /\ wsLog[n].conn = wsLog[n - 1].conn
                /\ wsLog[n].iter = wsLog[n - 1].iter
          /\ (IsWrite(wsLog[n]) /\ wsLog[n].ok) => n < Len(wsLog)
          /\ ~wsLog[n].ok => n = Len(wsLog)
          /\ wsLog[n].conn = wsLog[1].conn
    /\ \A k \in 1..Len(received) :
          received[k].proto = "ws" =>
              /\ Cardinality(OpsAt("write", k - 1)) = 1
              /\ Cardinality(OpsAt("read", k - 1)) = 1
              /\ \A n \in OpsAt("write", k - 1) :
                    /\ wsLog[n].ok
                    /\ wsLog[n].text = bound[k].body
                    /\ wsLog[n + 1].op = "read"
                    /\ wsLog[n + 1].ok
                    /\ wsLog[n + 1].msg = received[k].body
    /\ (pc = "dispatch" /\ received[Len(received)].proto = "ws") =>
          body = wsLog[Len(wsLog)].msg

C20_Witness ==
    /\ Len(wsLog) = 6
    /\ wsLog[1].op = "write_setup"
    /\ wsLog[6].op = "read"
    /\ Len(received) = 2
    /\ pc = "dispatch"
    /\ body = wsLog[6].msg

(* ---------------------- claims: HTTP error status ---------------------- *)

\* Status codes of a server that fails.
ErrorStatuses == {500}

\* run.go:356-390: the HTTP branch against a server that answers with an error
\* status.
SendHTTPError == SendHTTPWith(ErrorStatuses)

NextStatus ==
    \/ Next
    \/ SendHTTPError

\* List-driven definitions, against servers that may answer with an error
\* status.
InitStatus ==
    /\ def \in [URL : URLs, SetupBody : {SETUP_NONE}, Body : {BODY_TPL},
                 Headers : {NoHeaders},
                 StopWhen : SeqsUpTo({E_SEL, E_HALT}, 1),
                 Lists : ListChoices \ {<<>>}]
    /\ FreshEngine

SpecStatus == InitStatus /\ [][NextStatus]_vars

\* C21: an HTTP exchange that completes with an error status code is a
\* transport error: it ends the run with no retry and no further exchange,
\* whatever the stop expressions are.
C21_ErrorStatusAborts ==
    \A k \in 1..Len(received) :
        (received[k].proto = "http" /\ received[k].status \in ErrorStatuses) =>
            /\ k = Len(received)
            /\ pc \in {"panic", "fatal"}
            /\ Len(handled) = k - 1

(* ------------------ claims: the two evaluators agree ------------------- *)

\* Definitions whose expressions read the body's fields or the status.
InitEquiv ==
    /\ def \in [URL : URLs, SetupBody : {SETUP_NONE}, Body : {BODY_TPL},
                 Headers : {NoHeaders},
                 StopWhen : SeqsUpTo({E_CMP, E_SEL, E_FROMJSON, E_STATUS}, MaxStop),
                 Lists : {<< <<"a", "b">> >>}]
    /\ FreshEngine

SpecEquiv == InitEquiv /\ [][Next]_vars

\* The expression reads only raw_body, body_object or body_array.
BodyOnly(condition) == condition # E_STATUS

\* An HTTP response carrying the body of a received exchange.
AsHTTP(rec) == [status |-> 200, body |-> rec.body, path |-> <<"/", "1">>]

\* C22: for the same body and the same stop expressions, all reading only
\* fields derived from the body, ShouldContinueHTTP and ShouldContinueWS return
\* the same decision; the WebSocket normalized response is the HTTP one with
\* status 0 and empty path.
C22_EvaluatorsAgree ==
    (/\ Evaluated
     /\ \A k \in 1..Len(def.StopWhen) : BodyOnly(def.StopWhen[k])) =>
        LET rec == received[Len(received)]
        IN  /\ ShouldContinueHTTP(def.StopWhen, AsHTTP(rec)).verdict
                  = ShouldContinueWS(def.StopWhen, rec.body).verdict
            /\ lastEval.verdict = ShouldContinueWS(def.StopWhen, rec.body).verdict
            /\ NormalizeWS(rec.body)
                  = [NormalizeHTTP(AsHTTP(rec)) EXCEPT !.Status = 0, !.Path = <<>>]

C22_Witness ==
    /\ Evaluated
    /\ received[Len(received)].proto = "ws"
    /\ received[Len(received)].body = B_TRUE
    /\ def.StopWhen = <<E_SEL, E_CMP>>
    /\ lastEval.verdict = "stop"
    /\ ShouldContinueHTTP(def.StopWhen, AsHTTP(received[Len(received)])).verdict = "stop"

(* --------------------------- claims: headers --------------------------- *)

\* Two names that differ only in a character the sanitizer drops.
H_DOT == [name |-> <<"X", ".", "a">>, value |-> <<"1">>]
H_TILDE == [name |-> <<"X", "~", "a">>, value |-> <<"2">>]
\* Two names that render to the same text on iteration 0, where Page is 1.
H_ONE == [name |-> <<"X", "-", "1">>, value |-> <<"a">>]
H_PAGE == [name |-> <<"X", "-", "{{.Page}}">>, value |-> <<"b">>]
\* A value whose Execute fails.
H_BAD == [name |-> <<"X", "-", "h">>, value |-> <<"{{.Missing}}">>]

HeaderChoices ==
    {NoHeaders, <<H_ONE>>, <<H_DOT, H_TILDE>>, <<H_ONE, H_PAGE>>, <<H_PAGE, H_ONE>>,
     <<H_ONE, H_BAD>>}

InitHeaders ==
    /\ def \in [URL : URLs, SetupBody : {SETUP_NONE}, Body : {BODY_TPL},
                 Headers : HeaderChoices,
                 StopWhen : SeqsUpTo({E_SEL, E_HALT}, 1),
                 Lists : {<< <<"a", "b">> >>}]
    /\ FreshEngine

\* run.go:344-351: Execute of a header name or value fails and Send panics.
SendHeaderPanic ==
    /\ pc = "send"
    /\ \E h \in HeaderBindings :
          /\ h.failed
          /\ headerTemplates' = h.cache
          /\ bound' = Append(bound, [Binding EXCEPT !.headers = h.headers])
    /\ pc' = "panic"
    /\ fault' = "header Execute"
    /\ UNCHANGED <<def, LastResponse, webSocket, c, reqCount, body, shouldContinue,
                   lastEval, received, handled, wsLog, dials, runs, hist>>

NextHeaders ==
    \/ Next
    \/ SendHeaderPanic

SpecHeaders == InitHeaders /\ [][NextHeaders]_vars

\* C23: after any number of calls of HeaderTemplates the cache holds exactly one
\* compiled name/value pair for each configured header, each under its own key,
\* which includes the header's index, so that no header is dropped even when
\* two names have the same sanitized text.
C23_OnePairPerHeader ==
    Len(bound) >= 1 =>
        /\ Cardinality(headerTemplates) = Len(def.Headers)
        /\ \A i \in 1..Len(def.Headers) :
              \E e \in headerTemplates :
                  /\ e.name = def.Headers[i].name
                  /\ e.value = def.Headers[i].value
        /\ \A e1, e2 \in headerTemplates : e1.key = e2.key => e1 = e2
        /\ \A e1, e2 \in headerTemplates : e1 # e2 => e1.key.index # e2.key.index

\* The header set a binding in the definition's order gives, a later header
\* replacing an earlier one of the same rendered name.
InOrderHeaders(ctx) == RenderHeadersLoop(def.Headers, 1, ctx, {}).headers

\* C24: header binding is deterministic: the rendered header set is the one the
\* definition's insertion order gives for the context, the value of the later
\* of two templates that render to the same name being the one sent.
C24_HeadersInInsertionOrder ==
    \A k \in 1..Len(bound) :
        (k <= Len(received) \/ fault # "header Execute") =>
            bound[k].headers = InOrderHeaders(bound[k])

(* ---------------------- claims: the context's frame -------------------- *)

\* Contexts as callers may supply them, ListParams filled in or not.
InitFrame ==
    /\ def \in [URL : URLs, SetupBody : {SETUP_NONE}, Body : {BODY_TPL},
                 Headers : {NoHeaders},
                 StopWhen : SeqsUpTo({E_SEL, E_HALT}, 1), Lists : ListChoices]
    /\ LastResponse = ZeroSimpleResponse
    /\ webSocket = NoConn
    /\ c \in [Host : {"localhost", "example"}, Iteration : {0}, Page : {0},
               PageSize : PageSizes, ResultOffset : {0}, AuthToken : {"token"},
               Extra : {"extra"}, ListParams : {<<>>, <<"seed">>},
               LastResponse : {"nil"}]
    /\ pc = "advance"
    /\ fault = "none"
    /\ reqCount = 0
    /\ body = ""
    /\ shouldContinue = FALSE
    /\ lastEval = NoEval
    /\ bound = <<>>
    /\ received = <<>>
    /\ handled = <<>>
    /\ wsLog = <<>>
    /\ dials = <<>>
    /\ runs = 1
    /\ hist = NoHist
    /\ headerTemplates = {}

SpecFrame == InitFrame /\ [][Next]_vars

\* C25: Recurse changes only the context's Iteration, Page, ResultOffset,
\* LastResponse and, when lists are configured, ListParams: no step changes
\* the caller's Host, AuthToken, Extra or PageSize, and without lists no step
\* changes ListParams.
C25_ContextFrame ==
    [][/\ c'.Host = c.Host
       /\ c'.AuthToken = c.AuthToken
       /\ c'.Extra = c.Extra
       /\ c'.PageSize = c.PageSize
       /\ def.Lists = <<>> => c'.ListParams = c.ListParams]_vars

C25_Witness ==
    /\ def.Lists = <<>>
    /\ c.Iteration = 2
    /\ c.Page = 3
    /\ c.ResultOffset = 20
    /\ c.PageSize = 10
    /\ c.Host = "example"
    /\ c.ListParams = <<"seed">>
    /\ pc = "dispatch"

====
